---- MODULE Spec2Model ----
(***************************************************************************)
(* Model of the note routes of MyNoteTaking (src/routes/note.py): the      *)
(* time-string parser, and the Create / Update / Delete / Search handlers  *)
(* over the persisted notes table.                                         *)
(*                                                                         *)
(* Text is modelled as a tuple of one-character strings, so that length,   *)
(* substring and format matching are computed and not assumed.             *)
(***************************************************************************)
EXTENDS Integers, Sequences, FiniteSets, TLC

VARIABLES
    notes,      \* the persisted table: id -> row (committed state only)
    next_id,    \* the store's id sequence
    clock,      \* the store's timestamp source
    request,    \* the request handled by the last step
    response,   \* the response the handler returned for it
    time_str,   \* parse_time_string: its argument
    fmt_idx,    \* parse_time_string: index of the format the loop is at
    parsed,     \* parse_time_string: the value returned
    warned,     \* parse_time_string: whether the warning was logged
    pc          \* parse_time_string: "loop" while running, "done" once returned

vars == <<notes, next_id, clock, request, response, time_str, fmt_idx, parsed, warned, pc>>

storeVars == <<notes, next_id, clock, request, response>>
parseVars == <<time_str, fmt_idx, parsed, warned, pc>>

(***************************************************************************)
(* Text helpers                                                            *)
(***************************************************************************)
Digits == <<"0", "1", "2", "3", "4", "5", "6", "7", "8", "9">>

DigitValues ==
    [c \in {Digits[i] : i \in 1..10} |-> (CHOOSE i \in 1..10 : Digits[i] = c) - 1]

IsDigit(c) == c \in DOMAIN DigitValues

DigitVal(c) == DigitValues[c]

\* s[i] when i is inside s, and a character that is in no pattern otherwise
CharAt(s, i) == IF i >= 1 /\ i <= Len(s) THEN s[i] ELSE "<eos>"

InRange(c, lo, hi) == IsDigit(c) /\ DigitVal(c) >= lo /\ DigitVal(c) <= hi

RECURSIVE ToInt(_)
\* int() of a string of digits and blanks (a leading blank counts for nothing)
ToInt(s) ==
    IF s = <<>> THEN 0
    ELSE LET last == s[Len(s)]
             rest == ToInt(SubSeq(s, 1, Len(s) - 1))
         IN  IF IsDigit(last) THEN 10 * rest + DigitVal(last) ELSE rest

RECURSIVE PadRight(_, _)
\* s += "0" * (n - len(s))
PadRight(s, n) == IF Len(s) >= n THEN s ELSE PadRight(Append(s, "0"), n)

(***************************************************************************)
(* datetime.strptime, for the directives the routes use.  A format is a    *)
(* sequence of tokens: a directive name ("%H") or a literal character.     *)
(* Each directive is the regular expression strptime compiles it to; its   *)
(* alternatives are tried in order and the first one after which the rest  *)
(* of the format matches is taken.                                         *)
(***************************************************************************)
Directives == {"%H", "%M", "%S", "%f", "%Y", "%m", "%d"}

\* The lengths each alternative of a directive's expression can consume at
\* position i of s, in the expression's order of preference.
DirectiveAlts(dir, s, i) ==
    LET c1 == CharAt(s, i)
        c2 == CharAt(s, i + 1)
        Alt(cond, n) == IF cond THEN <<n>> ELSE <<>>
    IN  CASE dir = "%H" ->           \* 2[0-3]|[0-1]\d|\d
               Alt(c1 = "2" /\ InRange(c2, 0, 3), 2)
               \o Alt(InRange(c1, 0, 1) /\ IsDigit(c2), 2)
               \o Alt(IsDigit(c1), 1)
          [] dir = "%M" ->           \* [0-5]\d|\d
               Alt(InRange(c1, 0, 5) /\ IsDigit(c2), 2)
               \o Alt(IsDigit(c1), 1)
          [] dir = "%S" ->           \* 6[0-1]|[0-5]\d|\d
               Alt(c1 = "6" /\ InRange(c2, 0, 1), 2)
               \o Alt(InRange(c1, 0, 5) /\ IsDigit(c2), 2)
               \o Alt(IsDigit(c1), 1)
          [] dir = "%f" ->           \* [0-9]{1,6}, greedy
               LET n == CHOOSE k \in 0..6 :
                          /\ \A j \in 0..(k - 1) : IsDigit(CharAt(s, i + j))
                          /\ (k = 6 \/ ~IsDigit(CharAt(s, i + k)))
               IN  [j \in 1..n |-> n + 1 - j]
          [] dir = "%Y" ->           \* \d\d\d\d
               Alt(\A j \in 0..3 : IsDigit(CharAt(s, i + j)), 4)
          [] dir = "%m" ->           \* 1[0-2]|0[1-9]|[1-9]
               Alt(c1 = "1" /\ InRange(c2, 0, 2), 2)
               \o Alt(c1 = "0" /\ InRange(c2, 1, 9), 2)
               \o Alt(InRange(c1, 1, 9), 1)
          [] dir = "%d" ->           \* 3[0-1]|[1-2]\d|0[1-9]|[1-9]| [1-9]
               Alt(c1 = "3" /\ InRange(c2, 0, 1), 2)
               \o Alt(InRange(c1, 1, 2) /\ IsDigit(c2), 2)
               \o Alt(c1 = "0" /\ InRange(c2, 1, 9), 2)
               \o Alt(InRange(c1, 1, 9), 1)
               \o Alt(c1 = " " /\ InRange(c2, 1, 9), 2)

NoMatch == [ok |-> FALSE, end |-> 0, found |-> <<>>]

RECURSIVE MatchFrom(_, _, _, _, _)
RECURSIVE FirstAlt(_, _, _, _, _, _, _)

\* re.match of tokens k.. of fmt at position i of s; found collects the text
\* of each directive matched so far as <<directive, text>> pairs.
MatchFrom(fmt, k, s, i, found) ==
    IF k > Len(fmt) THEN [ok |-> TRUE, end |-> i, found |-> found]
    ELSE IF fmt[k] \in Directives
         THEN FirstAlt(fmt, k, s, i, found, DirectiveAlts(fmt[k], s, i), 1)
         ELSE IF CharAt(s, i) = fmt[k]
              THEN MatchFrom(fmt, k + 1, s, i + 1, found)
              ELSE NoMatch

FirstAlt(fmt, k, s, i, found, alts, a) ==
    IF a > Len(alts) THEN NoMatch
    ELSE LET n == alts[a]
             r == MatchFrom(fmt, k + 1, s, i + n,
                            Append(found, <<fmt[k], SubSeq(s, i, i + n - 1)>>))
         IN  IF r.ok THEN r ELSE FirstAlt(fmt, k, s, i, found, alts, a + 1)

\* found_dict[dir] as an integer (0 when the format has no such directive)
Found(found, dir) ==
    IF \E j \in 1..Len(found) : found[j][1] = dir
    THEN LET j == CHOOSE j \in 1..Len(found) : found[j][1] = dir
         IN  IF dir = "%f" THEN ToInt(PadRight(found[j][2], 6))
             ELSE ToInt(found[j][2])
    ELSE 0

IsLeap(y) == (y % 4 = 0) /\ ((y % 100 # 0) \/ (y % 400 = 0))

DaysInMonth(y, m) ==
    IF m = 2 THEN (IF IsLeap(y) THEN 29 ELSE 28)
    ELSE IF m \in {4, 6, 9, 11} THEN 30 ELSE 31

None == [set |-> FALSE, a |-> 0, b |-> 0, c |-> 0, us |-> 0]

\* datetime.strptime(s, fmt): [ok |-> FALSE] stands for ValueError (no match,
\* unconverted data, or a field the datetime constructor refuses).
Strptime(s, fmt) ==
    LET r == MatchFrom(fmt, 1, s, 1, <<>>)
    IN  IF ~r.ok \/ r.end # Len(s) + 1 THEN [ok |-> FALSE, found |-> <<>>]
        ELSE [ok |-> TRUE, found |-> r.found]

\* datetime.strptime(s, fmt).time() for a time-only format
StrptimeTime(s, fmt) ==
    LET r == Strptime(s, fmt)
    IN  IF ~r.ok \/ Found(r.found, "%S") > 59 THEN [ok |-> FALSE, value |-> None]
        ELSE [ok |-> TRUE,
              value |-> [set |-> TRUE, a |-> Found(r.found, "%H"),
                         b |-> Found(r.found, "%M"), c |-> Found(r.found, "%S"),
                         us |-> Found(r.found, "%f")]]

DateFormat == <<"%Y", "-", "%m", "-", "%d">>

\* datetime.strptime(s, '%Y-%m-%d').date()
StrptimeDate(s) ==
    LET r == Strptime(s, DateFormat)
        y == Found(r.found, "%Y")
        m == Found(r.found, "%m")
        d == Found(r.found, "%d")
    IN  IF ~r.ok \/ y < 1 \/ d > DaysInMonth(y, m) THEN [ok |-> FALSE, value |-> None]
        ELSE [ok |-> TRUE, value |-> [set |-> TRUE, a |-> y, b |-> m, c |-> d, us |-> 0]]

(***************************************************************************)
(* parse_time_string                                                       *)
(***************************************************************************)
time_formats_no_short ==
    << <<"%H", ":", "%M", ":", "%S", ".", "%f">>,
       <<"%H", ":", "%M", ":", "%S">> >>

time_formats ==
    << <<"%H", ":", "%M", ":", "%S", ".", "%f">>,
       <<"%H", ":", "%M", ":", "%S">>,
       <<"%H", ":", "%M">> >>

RECURSIVE TryFormats(_, _)
\* the for loop over time_formats, from format k on
TryFormats(s, k) ==
    IF k > Len(time_formats) THEN None
    ELSE LET r == StrptimeTime(s, time_formats[k])
         IN  IF r.ok THEN r.value ELSE TryFormats(s, k + 1)

parse_time_string(s) == IF s = <<>> THEN None ELSE TryFormats(s, 1)

(***************************************************************************)
(* JSON values of a request body                                           *)
(***************************************************************************)
JNull == [t |-> "null", s |-> <<>>, n |-> 0]
JStr(s) == [t |-> "str", s |-> s, n |-> 0]
JNum(n) == [t |-> "num", s |-> <<>>, n |-> n]

IsNone(v) == v.t = "null"               \* v is None
IsStr(v) == v.t = "str"                 \* isinstance(v, str)
Truthy(v) == (v.t = "str" /\ v.s # <<>>) \/ (v.t = "num" /\ v.n # 0)

EmptyBody == [k \in {} |-> JNull]

\* request.json: has = FALSE is a body that decodes to None
NotData(body) == ~body.has \/ DOMAIN body.data = {}

(***************************************************************************)
(* The Note row and the session's view of the store                        *)
(***************************************************************************)
\* Note(title=..., content=...): the optional columns start as NULL
NewNote(title, content) ==
    [title |-> title, content |-> content, location |-> JNull, tags |-> JNull,
     event_date |-> None, event_time |-> None, updated_at |-> 0]

\* the NOT NULL columns of the notes table
NotNullViolation(note) == IsNone(note.title) \/ IsNone(note.content)

\* the store stamps updated_at on every write of a row
Stamp(note, now) == [note EXCEPT !.updated_at = now]

\* Control flow of a handler body: "run" falls through to the next statement,
\* "return" left the handler with a response, "raise" left it with an exception.
Run(note) == [st |-> "run", status |-> 0, note |-> note]
Return(status, note) == [st |-> "return", status |-> status, note |-> note]
Raise(note) == [st |-> "raise", status |-> 0, note |-> note]

\* the next statement runs only if the one before fell through
Then(flow, Step(_)) == IF flow.st = "run" THEN Step(flow.note) ELSE flow

MAX_LENGTH == 200

TooLongOffByOne(v) == Len(v.s) > MAX_LENGTH + 1

\* len(data[key]) > 200
TooLong(v) == Len(v.s) > MAX_LENGTH

TextFieldSkipNull(note, data, key) ==
    IF key \notin DOMAIN data THEN Run(note)
    ELSE IF ~IsNone(data[key]) /\ ~IsStr(data[key]) THEN Return(400, note)
    ELSE IF ~IsNone(data[key]) /\ TooLong(data[key]) THEN Return(400, note)
    ELSE IF IsNone(data[key]) THEN Run(note)
    ELSE Run([note EXCEPT ![key] = data[key]])

\* if key in data: type check, length check, note.<key> = data[key]
TextField(note, data, key) ==
    IF key \notin DOMAIN data THEN Run(note)
    ELSE IF ~IsNone(data[key]) /\ ~IsStr(data[key]) THEN Return(400, note)
    ELSE IF ~IsNone(data[key]) /\ TooLong(data[key]) THEN Return(400, note)
    ELSE Run([note EXCEPT ![key] = data[key]])

\* create_note: if 'event_date' in data and data['event_date']: try strptime
CreateEventDate(note, data) ==
    IF "event_date" \in DOMAIN data /\ Truthy(data["event_date"])
    THEN IF ~IsStr(data["event_date"]) THEN Raise(note)      \* TypeError
         ELSE LET r == StrptimeDate(data["event_date"].s)
              IN  IF r.ok THEN Run([note EXCEPT !.event_date = r.value])
                  ELSE Run(note)                             \* ValueError: pass
    ELSE Run(note)

\* create_note: if 'event_time' in data and data['event_time']: parse_time_string
CreateEventTime(note, data) ==
    IF "event_time" \in DOMAIN data /\ Truthy(data["event_time"])
    THEN IF ~IsStr(data["event_time"]) THEN Raise(note)      \* TypeError
         ELSE LET t == parse_time_string(data["event_time"].s)
              IN  IF t.set THEN Run([note EXCEPT !.event_time = t])
                  ELSE Run(note)
    ELSE Run(note)

UpdateEventDateClearsInvalid(note, data) ==
    IF "event_date" \in DOMAIN data
    THEN IF Truthy(data["event_date"])
         THEN IF ~IsStr(data["event_date"]) THEN Raise(note)
              ELSE Run([note EXCEPT !.event_date = StrptimeDate(data["event_date"].s).value])
         ELSE Run([note EXCEPT !.event_date = None])
    ELSE Run(note)

\* update_note: if 'event_date' in data: parse when truthy, else clear
UpdateEventDate(note, data) ==
    IF "event_date" \in DOMAIN data
    THEN IF Truthy(data["event_date"])
         THEN IF ~IsStr(data["event_date"]) THEN Raise(note)  \* TypeError
              ELSE LET r == StrptimeDate(data["event_date"].s)
                   IN  IF r.ok THEN Run([note EXCEPT !.event_date = r.value])
                       ELSE Run(note)                         \* ValueError: pass
         ELSE Run([note EXCEPT !.event_date = None])
    ELSE Run(note)

\* update_note: if 'event_time' in data: parse when truthy, else clear
UpdateEventTime(note, data) ==
    IF "event_time" \in DOMAIN data
    THEN IF Truthy(data["event_time"])
         THEN IF ~IsStr(data["event_time"]) THEN Raise(note)  \* TypeError
              ELSE LET t == parse_time_string(data["event_time"].s)
                   IN  IF t.set THEN Run([note EXCEPT !.event_time = t])
                       ELSE Run(note)
         ELSE Run([note EXCEPT !.event_time = None])
    ELSE Run(note)

\* data.get(key, default)
DictGet(data, key, default) == IF key \in DOMAIN data THEN data[key] ELSE default

UpdateTitleContentNoDefault(note, data) ==
    Run([note EXCEPT !.title = DictGet(data, "title", note.title),
                     !.content = DictGet(data, "content", JNull)])

\* note.title = data.get('title', note.title); likewise content
UpdateTitleContent(note, data) ==
    Run([note EXCEPT !.title = DictGet(data, "title", note.title),
                     !.content = DictGet(data, "content", note.content)])

(***************************************************************************)
(* The session: what a handler's exit leaves in the persisted table        *)
(***************************************************************************)
\* db.session.commit(): the session's object is written as row id
SessionCommit(table, id, note) == (id :> note) @@ table

\* db.session.rollback(): the session's changes are dropped
SessionRollback(table, id, note) == table

SessionRemoveFlushes(table, id, note) ==
    IF id \in DOMAIN table THEN (id :> note) @@ table ELSE table

\* a return that never reached commit: the request ends, its session is
\* removed and the changes made to its objects are dropped
SessionRemove(table, id, note) == table

Reply(status, table, nid, ids) ==
    [status |-> status, notes |-> table, next_id |-> nid, ids |-> ids]

(***************************************************************************)
(* create_note                                                             *)
(***************************************************************************)
RequiredMissingTitleOnly(body) ==
    NotData(body) \/ "title" \notin DOMAIN body.data

\* not data or 'title' not in data or 'content' not in data
RequiredMissing(body) ==
    NotData(body) \/ "title" \notin DOMAIN body.data \/ "content" \notin DOMAIN body.data

\* the body of the try block, up to db.session.add
CreateFlow(body) ==
    IF RequiredMissing(body) THEN Return(400, NewNote(JNull, JNull))
    ELSE IF ~({"title", "content"} \subseteq DOMAIN body.data)
         THEN Raise(NewNote(JNull, JNull))                   \* KeyError
    ELSE Then(Then(Then(Then(
            Run(NewNote(body.data["title"], body.data["content"])),
            LAMBDA n : TextField(n, body.data, "location")),
            LAMBDA n : TextField(n, body.data, "tags")),
            LAMBDA n : CreateEventDate(n, body.data)),
            LAMBDA n : CreateEventTime(n, body.data))

\* db.session.add(note); db.session.commit(), or the exit taken before them
CreateExit(table, nid, now, flow) ==
    CASE flow.st = "return" -> Reply(flow.status, table, nid, <<>>)
      [] flow.st = "raise" -> Reply(500, SessionRollback(table, nid, flow.note), nid, <<>>)
      [] flow.st = "run" ->
           IF NotNullViolation(flow.note)                    \* IntegrityError
           THEN Reply(500, SessionRollback(table, nid, flow.note), nid, <<>>)
           ELSE Reply(201, SessionCommit(table, nid, Stamp(flow.note, now)),
                      nid + 1, <<nid>>)

create_note(table, nid, now, body) == CreateExit(table, nid, now, CreateFlow(body))

(***************************************************************************)
(* update_note                                                             *)
(***************************************************************************)
\* the body of the try block after get_or_404, up to db.session.commit
UpdateFlow(note, body) ==
    IF NotData(body) THEN Return(400, note)
    ELSE Then(Then(Then(Then(
            UpdateTitleContent(note, body.data),
            LAMBDA n : TextField(n, body.data, "location")),
            LAMBDA n : TextField(n, body.data, "tags")),
            LAMBDA n : UpdateEventDate(n, body.data)),
            LAMBDA n : UpdateEventTime(n, body.data))

\* db.session.commit(), or the exit taken before it
UpdateExit(table, nid, now, id, flow) ==
    CASE flow.st = "return" ->
           Reply(flow.status, SessionRemove(table, id, flow.note), nid, <<>>)
      [] flow.st = "raise" ->
           Reply(500, SessionRollback(table, id, flow.note), nid, <<>>)
      [] flow.st = "run" ->
           IF NotNullViolation(flow.note)                    \* IntegrityError
           THEN Reply(500, SessionRollback(table, id, flow.note), nid, <<>>)
           ELSE Reply(200, SessionCommit(table, id, Stamp(flow.note, now)),
                      nid, <<id>>)

update_note(table, nid, now, id, body) ==
    IF id \notin DOMAIN table
    THEN Reply(500, table, nid, <<>>)       \* get_or_404 aborts inside the try
    ELSE UpdateExit(table, nid, now, id, UpdateFlow(table[id], body))

(***************************************************************************)
(* delete_note, get_note                                                   *)
(***************************************************************************)
delete_note(table, nid, id) ==
    IF id \notin DOMAIN table
    THEN Reply(500, table, nid, <<>>)       \* get_or_404 aborts inside the try
    ELSE Reply(204, [k \in DOMAIN table \ {id} |-> table[k]], nid, <<>>)

get_note(table, nid, id) ==
    IF id \notin DOMAIN table
    THEN Reply(404, table, nid, <<>>)       \* get_or_404 aborts, nothing catches it
    ELSE Reply(200, table, nid, <<id>>)

(***************************************************************************)
(* get_notes, search_notes                                                 *)
(***************************************************************************)
RECURSIVE Like(_, _, _, _)
\* s[j..] LIKE p[i..]: % matches any run of characters, _ any one character
Like(p, i, s, j) ==
    IF i > Len(p) THEN j > Len(s)
    ELSE IF p[i] = "%"
         THEN Like(p, i + 1, s, j) \/ (j <= Len(s) /\ Like(p, i, s, j + 1))
         ELSE IF j > Len(s) THEN FALSE
              ELSE (p[i] = "_" \/ p[i] = s[j]) /\ Like(p, i + 1, s, j + 1)

\* column.contains(q): column LIKE '%' || q || '%'; NULL matches nothing
Contains(column, q) ==
    IsStr(column) /\ Like(<<"%">> \o q \o <<"%">>, 1, column.s, 1)

\* order_by(Note.updated_at.desc()).all(): every order of the ids the store
\* may return them in
OrderedByUpdatedDesc(table, ids) ==
    LET n == Cardinality(ids)
    IN  {o \in [1..n -> ids] :
            /\ \A i, j \in 1..n : i # j => o[i] # o[j]
            /\ \A i \in 1..(n - 1) : table[o[i]].updated_at >= table[o[i + 1]].updated_at}

\* filter((Note.title.contains(query)) | (Note.content.contains(query)))
SearchFilter(table, q) ==
    {id \in DOMAIN table : Contains(table[id].title, q) \/ Contains(table[id].content, q)}

\* the lists get_notes may return
get_notes(table) == OrderedByUpdatedDesc(table, DOMAIN table)

\* the lists search_notes may return for the query string q
search_notes(table, q) ==
    IF q = <<>> THEN {<<>>} ELSE OrderedByUpdatedDesc(table, SearchFilter(table, q))

(***************************************************************************)
(* Bounds and the values requests are drawn from                           *)
(***************************************************************************)
MaxNotes == 2       \* ids the store hands out
MaxClock == 2       \* ticks of the store's clock
MaxKeys == 2        \* keys in an Update body
MaxTimeLen == 4     \* length of the arbitrary strings given to the parser

Ids == 1..MaxNotes

Repeat(c, n) == [i \in 1..n |-> c]

Keys == {"title", "content", "location", "tags", "event_date", "event_time"}

ValidDate == JStr(<<"2", "0", "2", "4", "-", "0", "1", "-", "1", "5">>)
ValidTime == JStr(<<"1", "4", ":", "3", "0">>)

\* every JSON object with at most n of the keys of V, a record of value sets
Objects(V, n) ==
    UNION {{d \in [D -> UNION {V[k] : k \in D}] : \A k \in D : d[k] \in V[k]}
           : D \in {D \in SUBSET DOMAIN V : Cardinality(D) <= n}}

\* the objects of Objects(V, n) that have all the keys of base, or base itself
\* extended by them
With(base, ds) == {d @@ base : d \in ds}

Json(data) == [has |-> TRUE, data |-> data]
NoJson == [has |-> FALSE, data |-> EmptyBody]

\* a body with the two required fields
BaseData == [title |-> JStr(<<"a">>), content |-> JStr(<<"b">>)]

\* a body that sets every field to a valid value
FullData ==
    [location |-> JStr(<<"x">>), tags |-> JStr(<<"t">>),
     event_date |-> ValidDate, event_time |-> ValidTime] @@ BaseData

NoRequest == [op |-> "none", id |-> 0, body |-> NoJson, q |-> <<>>]
NoResponse == [status |-> 0, ids |-> <<>>]

(***************************************************************************)
(* Requests                                                                *)
(***************************************************************************)
Handled(op, id, body, q, r) ==
    /\ notes' = r.notes
    /\ next_id' = r.next_id
    /\ request' = [op |-> op, id |-> id, body |-> body, q |-> q]
    /\ response' = [status |-> r.status, ids |-> r.ids]
    /\ UNCHANGED <<clock, parseVars>>

\* the store hands out at most MaxNotes ids
WithinBound(r) == r.status = 201 => next_id <= MaxNotes

Create(body) ==
    \E r \in {create_note(notes, next_id, clock, body)} :
        WithinBound(r) /\ Handled("create", 0, body, <<>>, r)

Update(id, body) ==
    \E r \in {update_note(notes, next_id, clock, id, body)} :
        Handled("update", id, body, <<>>, r)

Delete(id) ==
    Handled("delete", id, NoJson, <<>>, delete_note(notes, next_id, id))

Get(id) ==
    Handled("get", id, NoJson, <<>>, get_note(notes, next_id, id))

List ==
    \E o \in get_notes(notes) :
        Handled("list", 0, NoJson, <<>>, Reply(200, notes, next_id, o))

Search(q) ==
    \E o \in search_notes(notes, q) :
        Handled("search", 0, NoJson, q, Reply(200, notes, next_id, o))

\* time passes at the store
Tick ==
    /\ clock < MaxClock
    /\ clock' = clock + 1
    /\ UNCHANGED <<notes, next_id, request, response, parseVars>>

StoreInit ==
    /\ notes = [k \in {} |-> NewNote(JNull, JNull)]
    /\ next_id = 1
    /\ clock = 0
    /\ request = NoRequest
    /\ response = NoResponse

Init ==
    /\ StoreInit
    /\ time_str = <<>>
    /\ fmt_idx = 1
    /\ parsed = None
    /\ warned = FALSE
    /\ pc = "done"

(***************************************************************************)
(* Specifications.  Each draws its request bodies from its own set, so     *)
(* that all of them are explored exhaustively.                             *)
(***************************************************************************)
\* Spec: the required fields and the life cycle of a note
RequiredValues ==
    [title |-> {JNull, JStr(<<>>), JStr(<<"a">>)},
     content |-> {JNull, JStr(<<"b">>)},
     location |-> {JStr(<<"x">>)}]

CreateBodies ==
    {NoJson, Json(FullData)} \cup {Json(d) : d \in Objects(RequiredValues, MaxKeys + 1)}

UpdateBodies ==
    {NoJson} \cup {Json(d) : d \in Objects(RequiredValues, MaxKeys)}

Next ==
    \/ \E body \in CreateBodies : Create(body)
    \/ \E id \in Ids, body \in UpdateBodies : Update(id, body)
    \/ \E id \in Ids : Delete(id)
    \/ \E id \in Ids : Get(id)

Spec == Init /\ [][Next]_vars

\* SpecText: the optional text fields
TextValues ==
    [title |-> {JStr(<<"c">>)},
     location |-> {JNull, JNum(5), JStr(<<"x">>), JStr(Repeat("x", MAX_LENGTH)),
                   JStr(Repeat("x", MAX_LENGTH + 1))},
     tags |-> {JNull, JNum(5), JStr(<<"t">>), JStr(Repeat("t", MAX_LENGTH + 1))}]

TextCreateBodies ==
    {Json(d) : d \in With(BaseData, Objects(TextValues, MaxKeys - 1))}

TextUpdateBodies ==
    {Json(d) : d \in Objects(TextValues, MaxKeys)}
    \cup {Json([title |-> JStr(<<"c">>), event_date |-> JNum(5)])}

NextText ==
    \/ \E body \in TextCreateBodies : Create(body)
    \/ \E id \in Ids, body \in TextUpdateBodies : Update(id, body)
    \/ \E id \in Ids : Delete(id)

SpecText == Init /\ [][NextText]_vars

\* SpecDates: event_date and event_time
DateValues ==
    [title |-> {JStr(<<"c">>)},
     event_date |-> {JNull, ValidDate,
                     JStr(<<"2", "0", "2", "4", "-", "1", "3", "-", "4", "5">>),
                     JStr(<<"i", "n", "v", "a", "l", "i", "d">>)},
     event_time |-> {JStr(<<>>), ValidTime,
                     JStr(<<"n", "o", "t", "-", "a", "-", "t", "i", "m", "e">>)}]

DateCreateBodies ==
    {Json(d) : d \in With(BaseData, Objects(DateValues, MaxKeys - 1))} \cup {Json(FullData)}

DateUpdateBodies == {Json(d) : d \in Objects(DateValues, MaxKeys)}

NextDates ==
    \/ \E body \in DateCreateBodies : Create(body)
    \/ \E id \in Ids, body \in DateUpdateBodies : Update(id, body)
    \/ \E id \in Ids : Delete(id)

SpecDates == Init /\ [][NextDates]_vars

\* SpecSearch: listing and searching, with the store's clock running
SearchValues == [title |-> {JStr(<<"a">>), JStr(<<"a", "b">>)}]

SearchCreateBodies ==
    {Json(d @@ [content |-> JStr(<<"b">>)]) : d \in Objects(SearchValues, 1) \ {EmptyBody}}

SearchUpdateBodies == {Json(d) : d \in Objects(SearchValues, 1) \ {EmptyBody}}

Queries == {<<>>, <<"a">>, <<"b">>, <<"a", "b">>, <<"_">>}

NextSearch ==
    \/ \E body \in SearchCreateBodies : Create(body)
    \/ \E id \in Ids, body \in SearchUpdateBodies : Update(id, body)
    \/ \E id \in Ids : Delete(id)
    \/ \E q \in Queries : Search(q)
    \/ List
    \/ Tick

SpecSearch == Init /\ [][NextSearch]_vars

\* SpecParse: parse_time_string on its own, one loop iteration per step
TwoDigits(n) == <<Digits[(n \div 10) + 1], Digits[(n % 10) + 1]>>

TimeAlphabet == {"0", "1", "2", "5", "6", ":", "."}

ShortStrings == UNION {[1..n -> TimeAlphabet] : n \in 0..MaxTimeLen}

Hours == {0, 9, 14, 23, 24, 30}
Minutes == {0, 30, 59, 60}
Seconds == {0, 59, 60, 61}
Fractions == {<<"1">>, <<"1", "2", "3", "4", "5", "6">>,
              <<"1", "2", "3", "4", "5", "6", "7">>}

FormattedTimes ==
    {TwoDigits(h) \o <<":">> \o TwoDigits(m) : h \in Hours, m \in Minutes}
    \cup {TwoDigits(h) \o <<":">> \o TwoDigits(m) \o <<":">> \o TwoDigits(s)
            : h \in Hours, m \in Minutes, s \in Seconds}
    \cup {TwoDigits(h) \o <<":">> \o TwoDigits(m) \o <<":">> \o TwoDigits(s) \o <<".">> \o f
            : h \in Hours, m \in Minutes, s \in Seconds, f \in Fractions}

TimeInputs ==
    ShortStrings \cup FormattedTimes
    \cup {<<"n", "o", "t", "-", "a", "-", "t", "i", "m", "e">>, <<"9", ":", "5", ":", "7">>,
          <<" ", "1", "4", ":", "3", "0">>, <<"1", "4", ":", "3", "0", " ">>}

InitParse ==
    /\ StoreInit
    /\ time_str \in TimeInputs
    /\ fmt_idx = 1
    /\ parsed = None
    /\ warned = FALSE
    /\ pc = "loop"

\* if not time_str: return None
ParseEmpty ==
    /\ pc = "loop" /\ time_str = <<>>
    /\ pc' = "done"
    /\ UNCHANGED <<storeVars, time_str, fmt_idx, parsed, warned>>

\* try: return datetime.strptime(time_str, fmt).time()
ParseMatch ==
    /\ pc = "loop" /\ time_str # <<>> /\ fmt_idx <= Len(time_formats)
    /\ StrptimeTime(time_str, time_formats[fmt_idx]).ok
    /\ parsed' = StrptimeTime(time_str, time_formats[fmt_idx]).value
    /\ pc' = "done"
    /\ UNCHANGED <<storeVars, time_str, fmt_idx, warned>>

\* except ValueError: continue
ParseContinue ==
    /\ pc = "loop" /\ time_str # <<>> /\ fmt_idx <= Len(time_formats)
    /\ ~StrptimeTime(time_str, time_formats[fmt_idx]).ok
    /\ fmt_idx' = fmt_idx + 1
    /\ UNCHANGED <<storeVars, time_str, parsed, warned, pc>>

\* logger.warning(...); return None
ParseWarn ==
    /\ pc = "loop" /\ time_str # <<>> /\ fmt_idx > Len(time_formats)
    /\ warned' = TRUE
    /\ pc' = "done"
    /\ UNCHANGED <<storeVars, time_str, fmt_idx, parsed>>

NextParse == ParseEmpty \/ ParseMatch \/ ParseContinue \/ ParseWarn

SpecParse == InitParse /\ [][NextParse]_vars

(***************************************************************************)
(* Properties.  A step's request and response are request' and response';  *)
(* notes is the table before it and notes' the table after it.             *)
(***************************************************************************)
Data == request.body.data
Data1 == request'.body.data

Present(note) == \A f \in {"title", "content"} : IsStr(note[f]) /\ note[f].s # <<>>

\* C1: a Delete of an id no persisted note has answers 404 and leaves the
\* set of persisted notes as it was.
C1_DeleteAbsentIsNotFound ==
    [][(request'.op = "delete" /\ request'.id \notin DOMAIN notes)
         => (response'.status = 404 /\ notes' = notes)]_vars

\* C2: every persisted note has a title and a content that are not null and
\* not empty.
C2_TitleAndContentNonEmpty == \A id \in DOMAIN notes : Present(notes[id])

Unacceptable(v) == ~IsNone(v) /\ (~IsStr(v) \/ Len(v.s) > 200)

TextWithinLimit(note) ==
    \A f \in {"location", "tags"} :
        IsNone(note[f]) \/ (IsStr(note[f]) /\ Len(note[f].s) <= 200)

\* C4: Create and Update reject an unacceptable location or tags with 400
\* (an Update only gets that far when its note exists) and persist nothing
\* of the request, so every persisted location and tags is null or a string
\* of at most 200 characters.
C4_TextFieldsValidated ==
    [][/\ (/\ request'.op \in {"create", "update"}
           /\ \E f \in {"location", "tags"} \cap DOMAIN Data1 : Unacceptable(Data1[f]))
          => /\ notes' = notes
             /\ \/ response'.status = 400
                \/ request'.op = "update" /\ request'.id \notin DOMAIN notes
       /\ \A id \in DOMAIN notes' : TextWithinLimit(notes'[id])]_vars

C4_Witness ==
    /\ request.op = "update" /\ response.status = 400
    /\ request.id \in DOMAIN notes
    /\ "location" \in DOMAIN Data /\ IsStr(Data["location"])
    /\ Len(Data["location"].s) = 201
    /\ \E id \in DOMAIN notes : IsStr(notes[id].location) /\ Len(notes[id].location.s) = 200

\* C5: an Update that answers with an error leaves every field of every
\* persisted note as it was.
C5_FailedUpdateChangesNothing ==
    [][(request'.op = "update" /\ response'.status >= 400) => notes' = notes]_vars

C5_Witness ==
    /\ request.op = "update" /\ response.status = 400
    /\ request.id \in DOMAIN notes
    /\ "title" \in DOMAIN Data /\ Data["title"] # notes[request.id].title
    /\ "tags" \in DOMAIN Data /\ Unacceptable(Data["tags"])

\* C6: on an existing note, an Update that is accepted clears location when
\* the key is given as null and replaces it when the key is given as a string
\* of at most 200 characters; an Update that gives only the location key with
\* such a value is accepted; and an Update with a body without the key leaves
\* location as it was, accepted or not.
C6_LocationTriState ==
    [][(request'.op = "update" /\ request'.id \in DOMAIN notes /\ DOMAIN Data1 # {})
         => /\ request'.id \in DOMAIN notes'
            /\ "location" \notin DOMAIN Data1
                 => notes'[request'.id].location = notes[request'.id].location
            /\ ("location" \in DOMAIN Data1 /\ ~Unacceptable(Data1["location"]))
                 => /\ DOMAIN Data1 = {"location"} => response'.status = 200
                    /\ response'.status = 200
                         => notes'[request'.id].location = Data1["location"]]_vars

C6_Witness ==
    /\ request.op = "update" /\ response.status = 200
    /\ "location" \in DOMAIN Data /\ IsNone(Data["location"])
    /\ "tags" \in DOMAIN Data /\ notes[request.id].tags = Data["tags"]
    /\ IsNone(notes[request.id].location)

OtherFields == {"content", "location", "tags", "event_date", "event_time"}

\* C7: on an existing note, an Update with an empty body answers 400 and
\* changes nothing; an Update whose body holds only the title key (a string)
\* is accepted, sets the title to it and leaves the note's other fields and
\* every other note as they were.
C7_EmptyBodyAndTitleOnly ==
    [][(request'.op = "update" /\ request'.id \in DOMAIN notes)
         => /\ (~request'.body.has \/ DOMAIN Data1 = {})
                 => (response'.status = 400 /\ notes' = notes)
            /\ (DOMAIN Data1 = {"title"} /\ IsStr(Data1["title"]))
                 => /\ response'.status = 200
                    /\ DOMAIN notes' = DOMAIN notes
                    /\ notes'[request'.id].title = Data1["title"]
                    /\ \A f \in OtherFields :
                          notes'[request'.id][f] = notes[request'.id][f]
                    /\ \A id \in DOMAIN notes \ {request'.id} : notes'[id] = notes[id]]_vars

C7_Witness ==
    /\ request.op = "update" /\ response.status = 200
    /\ DOMAIN Data = {"title"} /\ notes[request.id].title = Data["title"]
    /\ IsStr(notes[request.id].location) /\ IsStr(notes[request.id].tags)
    /\ notes[request.id].event_date.set /\ notes[request.id].event_time.set
    /\ \E id \in DOMAIN notes : id # request.id /\ notes[id].title # Data["title"]

\* strings that are no date and no time
NotADate == {<<"2", "0", "2", "4", "-", "1", "3", "-", "4", "5">>,
             <<"i", "n", "v", "a", "l", "i", "d">>}
NotATime == {<<"n", "o", "t", "-", "a", "-", "t", "i", "m", "e">>}

Unparseable(f, v) ==
    IsStr(v) /\ ((f = "event_date" /\ v.s \in NotADate) \/ (f = "event_time" /\ v.s \in NotATime))

Clears(v) == IsNone(v) \/ (IsStr(v) /\ v.s = <<>>)

\* C8: on an existing note, an Update whose event_date or event_time is a
\* string that does not parse is accepted like any other: the title it gives
\* is applied and the field keeps its value; the field is cleared when the key
\* is null or empty, and only then; a body without the key leaves it alone.
C8_UnparseableDateIsIgnored ==
    [][(request'.op = "update" /\ request'.id \in DOMAIN notes /\ DOMAIN Data1 # {})
         => /\ response'.status = 200
            /\ request'.id \in DOMAIN notes'
            /\ "title" \in DOMAIN Data1 => notes'[request'.id].title = Data1["title"]
            /\ \A f \in {"event_date", "event_time"} :
                  LET old == notes[request'.id][f]
                      new == notes'[request'.id][f]
                  IN  /\ f \notin DOMAIN Data1 => new = old
                      /\ (f \in DOMAIN Data1 /\ Unparseable(f, Data1[f])) => new = old
                      /\ (f \in DOMAIN Data1 /\ Clears(Data1[f])) => ~new.set
                      /\ (old.set /\ ~new.set) => (f \in DOMAIN Data1 /\ Clears(Data1[f]))
                      /\ (f \in DOMAIN Data1 /\ Data1[f] = ValidDate)
                           => new = [set |-> TRUE, a |-> 2024, b |-> 1, c |-> 15, us |-> 0]
                      /\ (f \in DOMAIN Data1 /\ Data1[f] = ValidTime)
                           => new = [set |-> TRUE, a |-> 14, b |-> 30, c |-> 0, us |-> 0]]_vars

C8_Witness ==
    /\ request.op = "update" /\ response.status = 200
    /\ "event_date" \in DOMAIN Data /\ Unparseable("event_date", Data["event_date"])
    /\ "title" \in DOMAIN Data /\ notes[request.id].title = Data["title"]
    /\ notes[request.id].event_date.set

IsSubstring(q, s) ==
    \E i \in 0..(Len(s) - Len(q)) : SubSeq(s, i + 1, i + Len(q)) = q

Mentions(note, q) ==
    \/ IsStr(note.title) /\ IsSubstring(q, note.title.s)
    \/ IsStr(note.content) /\ IsSubstring(q, note.content.s)

\* C9: Search leaves the store as it was; with an empty q it returns the empty
\* list; with a non-empty q it returns exactly the persisted notes whose title
\* or content contains q, each once, by updated_at descending.
C9_SearchReturnsSubstringMatches ==
    [][request'.op = "search"
         => /\ notes' = notes
            /\ response'.status = 200
            /\ request'.q = <<>> => response'.ids = <<>>
            /\ request'.q # <<>>
                 => LET ids == response'.ids
                    IN  /\ {ids[i] : i \in 1..Len(ids)}
                             = {id \in DOMAIN notes : Mentions(notes[id], request'.q)}
                        /\ \A i, j \in 1..Len(ids) : i # j => ids[i] # ids[j]
                        /\ \A i \in 1..(Len(ids) - 1) :
                              notes[ids[i]].updated_at >= notes[ids[i + 1]].updated_at]_vars

\* the text is 1 to maxLen digits and reads as a number of at most hi
IsNumber(p, maxLen, hi) ==
    /\ Len(p) \in 1..maxLen
    /\ \A i \in 1..Len(p) : IsDigit(p[i])
    /\ ToInt(p) <= hi

Part(s, i, j) == SubSeq(s, i + 1, j - 1)

Time(h, m, s, us) == [set |-> TRUE, a |-> h, b |-> m, c |-> s, us |-> us]

RECURSIVE Pow10(_)
Pow10(n) == IF n = 0 THEN 1 ELSE 10 * Pow10(n - 1)

\* the time an input of the shape HH:MM stands for, as a set (empty when the
\* input is not of that shape)
AsHM(s) ==
    {Time(ToInt(Part(s, 0, i)), ToInt(Part(s, i, Len(s) + 1)), 0, 0) :
        i \in {i \in 1..Len(s) : /\ s[i] = ":"
                                 /\ IsNumber(Part(s, 0, i), 2, 23)
                                 /\ IsNumber(Part(s, i, Len(s) + 1), 2, 59)}}

\* likewise for HH:MM:SS
AsHMS(s) ==
    {Time(ToInt(Part(s, 0, x[1])), ToInt(Part(s, x[1], x[2])),
          ToInt(Part(s, x[2], Len(s) + 1)), 0) :
        x \in {x \in (1..Len(s)) \X (1..Len(s)) :
                 /\ x[1] < x[2] /\ s[x[1]] = ":" /\ s[x[2]] = ":"
                 /\ IsNumber(Part(s, 0, x[1]), 2, 23)
                 /\ IsNumber(Part(s, x[1], x[2]), 2, 59)
                 /\ IsNumber(Part(s, x[2], Len(s) + 1), 2, 59)}}

\* likewise for HH:MM:SS.ffffff, the fraction being 1 to 6 digits
AsHMSf(s) ==
    {Time(ToInt(Part(s, 0, x[1])), ToInt(Part(s, x[1], x[2])), ToInt(Part(s, x[2], x[3])),
          ToInt(Part(s, x[3], Len(s) + 1)) * Pow10(6 - (Len(s) - x[3]))) :
        x \in {x \in (1..Len(s)) \X (1..Len(s)) \X (1..Len(s)) :
                 /\ x[1] < x[2] /\ x[2] < x[3]
                 /\ s[x[1]] = ":" /\ s[x[2]] = ":" /\ s[x[3]] = "."
                 /\ IsNumber(Part(s, 0, x[1]), 2, 23)
                 /\ IsNumber(Part(s, x[1], x[2]), 2, 59)
                 /\ IsNumber(Part(s, x[2], x[3]), 2, 59)
                 /\ IsNumber(Part(s, x[3], Len(s) + 1), 6, 999999)}}

\* C10: the parser returns the match of the first of HH:MM:SS.ffffff,
\* HH:MM:SS, HH:MM the input has the shape of ("14:30" and "14:30:00" both
\* give 14:30:00), and no value, with a warning, for an input of none of them.
C10_FirstMatchingFormat ==
    pc = "done" =>
        /\ AsHMSf(time_str) # {} => (parsed \in AsHMSf(time_str) /\ fmt_idx = 1)
        /\ (AsHMSf(time_str) = {} /\ AsHMS(time_str) # {})
             => (parsed \in AsHMS(time_str) /\ fmt_idx = 2)
        /\ (AsHMSf(time_str) = {} /\ AsHMS(time_str) = {} /\ AsHM(time_str) # {})
             => (parsed \in AsHM(time_str) /\ fmt_idx = 3)
        /\ (AsHMSf(time_str) = {} /\ AsHMS(time_str) = {} /\ AsHM(time_str) = {})
             => (parsed = None /\ (warned <=> time_str # <<>>))
        /\ time_str \in {<<"1", "4", ":", "3", "0">>, <<"1", "4", ":", "3", "0", ":", "0", "0">>}
             => parsed = Time(14, 30, 0, 0)

C10_Witness ==
    /\ pc = "done"
    /\ time_str = <<"1", "4", ":", "3", "0">>
    /\ parsed = Time(14, 30, 0, 0)
    /\ fmt_idx = 3

====
